---- MODULE Spec2Model ----
(***************************************************************************)
(* Model of opentelemetry.instrumentation.aws_lambda: the module-level     *)
(* flush_timeout, _default_event_context_extractor,                        *)
(* _determine_parent_context and the otel_handler decorator's wrapper.     *)
(***************************************************************************)
EXTENDS Integers, Sequences, FiniteSets, TLC

(* Longest value of OTEL_INSTRUMENTATION_AWS_LAMBDA_FLUSH_TIMEOUT explored. *)
MaxLen == 2

(* ----------------------------- Python values ----------------------------- *)
(* Python values are tagged records, so that None, strings, mappings and    *)
(* contexts can be compared with each other.                                *)
None == [t |-> "NoneType"]

Str(s) == [t |-> "str", v |-> s]

(* A dict / Context: its items as a set of <<key, value>> pairs.            *)
Dict(items) == [t |-> "dict", items |-> items]

EmptyContext == [t |-> "Context", items |-> {}]

Returned(v) == [kind |-> "return", val |-> v]

Raised(e) == [kind |-> "raise", val |-> e]

HasKey(d, k) == \E p \in d.items : p[1] = k

Lookup(d, k) == (CHOOSE p \in d.items : p[1] = k)[2]

(* ------------------------- int(str), as CPython -------------------------- *)
Chars == {"5", "0", "-", " ", "a"}

IsDigit(c) == c \in {"0", "5"}

DigitVal(c) == IF c = "5" THEN 5 ELSE 0

RECURSIVE LStrip(_)
LStrip(s) == IF s # << >> /\ Head(s) = " " THEN LStrip(Tail(s)) ELSE s

RECURSIVE RStrip(_)
RStrip(s) ==
    IF s # << >> /\ s[Len(s)] = " " THEN RStrip(SubSeq(s, 1, Len(s) - 1)) ELSE s

RECURSIVE DigitsVal(_)
DigitsVal(s) ==
    IF s = << >> THEN 0 ELSE 10 * DigitsVal(SubSeq(s, 1, Len(s) - 1)) + DigitVal(s[Len(s)])

AllDigits(s) == s # << >> /\ \A i \in 1..Len(s) : IsDigit(s[i])

(* int(s) for a str s: surrounding whitespace is stripped, one sign is      *)
(* allowed, the rest must be a non-empty run of digits; else ValueError.    *)
IntOfStr(s) ==
    LET body == RStrip(LStrip(s))
        neg  == body # << >> /\ Head(body) = "-"
        digs == IF neg THEN Tail(body) ELSE body
    IN  IF AllDigits(digs)
        THEN Returned(IF neg THEN 0 - DigitsVal(digs) ELSE DigitsVal(digs))
        ELSE Raised("ValueError")

(* os.environ.get(key, default)                                             *)
EnvironGet(env, key, default) == IF env[key] = None THEN default ELSE env[key]

DefaultFlushTimeout == 30000

FlushTimeoutVar == "OTEL_INSTRUMENTATION_AWS_LAMBDA_FLUSH_TIMEOUT"

(* int(os.environ.get("OTEL_INSTRUMENTATION_AWS_LAMBDA_FLUSH_TIMEOUT", 30000)) *)
ComputeFlushTimeout(env) ==
    IF env[FlushTimeoutVar] = None
    THEN Returned(DefaultFlushTimeout)
    ELSE IntOfStr(env[FlushTimeoutVar].v)

(* ------------------- external propagators (black boxes) ------------------ *)
(* A span context as the propagators build it from a carrier.               *)
SpanContext(tid, sid, smp) ==
    [trace_id |-> tid, span_id |-> sid, is_remote |-> TRUE, sampled |-> smp]

INVALID_SPAN_CONTEXT ==
    [trace_id |-> "0", span_id |-> "0", is_remote |-> FALSE, sampled |-> FALSE]

(* trace.set_span_in_context(NonRecordingSpan(sc), Context())               *)
ContextWithSpan(sc) == [t |-> "Context", items |-> {<<"current-span", sc>>}]

(* get_current_span(context).get_span_context(): INVALID_SPAN when the      *)
(* context holds no span.                                                   *)
CurrentSpanContext(ctx) ==
    IF HasKey(ctx, "current-span") THEN Lookup(ctx, "current-span") ELSE INVALID_SPAN_CONTEXT

(* bool(x) of the values the resolver tests: None, "" and an empty Context  *)
(* (a dict subclass) are falsy.                                             *)
Truthy(x) ==
    CASE x.t = "NoneType" -> FALSE
      [] x.t = "str"      -> x.v # << >>
      [] OTHER            -> x.items # {}

TRACE_HEADER_KEY == "X-Amzn-Trace-Id"

XRayTraceIds == {"1-5759e988-bd86"}

XRayParseTraceId(v) == "5759e988bd86"

XRayParentIds == {"53995c3f"}

(* AwsXRayFormat._extract_span_properties: the header is a sequence of      *)
(* ";"-separated tokens, each <<key, value>> when it splits on one "=" and  *)
(* <<text>> when it does not.                                               *)
RECURSIVE XRaySpanProperties(_, _)
XRaySpanProperties(tokens, acc) ==
    IF tokens = << >> THEN Returned(acc)
    ELSE LET tok == Head(tokens) IN
         IF Len(tok) # 2 THEN Raised("AwsParseTraceHeaderError")
         ELSE CASE tok[1] = "Root" ->
                     IF tok[2] \in XRayTraceIds
                     THEN XRaySpanProperties(Tail(tokens),
                              [acc EXCEPT !.trace_id = XRayParseTraceId(tok[2])])
                     ELSE Raised("AwsParseTraceHeaderError")
                [] tok[1] = "Parent" ->
                     IF tok[2] \in XRayParentIds
                     THEN XRaySpanProperties(Tail(tokens), [acc EXCEPT !.span_id = tok[2]])
                     ELSE Raised("AwsParseTraceHeaderError")
                [] tok[1] = "Sampled" ->
                     IF tok[2] \in {"0", "1"}
                     THEN XRaySpanProperties(Tail(tokens), [acc EXCEPT !.sampled = (tok[2] = "1")])
                     ELSE Raised("AwsParseTraceHeaderError")
                [] OTHER -> XRaySpanProperties(Tail(tokens), acc)

(* AwsXRayFormat().extract(carrier): an empty Context unless the header     *)
(* parses to a valid span context.                                          *)
AwsXRayExtract(carrier) ==
    IF ~HasKey(carrier, TRACE_HEADER_KEY) \/ ~Truthy(Lookup(carrier, TRACE_HEADER_KEY))
    THEN EmptyContext
    ELSE LET r == XRaySpanProperties(Lookup(carrier, TRACE_HEADER_KEY).v,
                      [trace_id |-> "0", span_id |-> "0", sampled |-> FALSE])
         IN  IF r.kind = "raise" \/ r.val.trace_id = "0" \/ r.val.span_id = "0"
             THEN EmptyContext
             ELSE ContextWithSpan(SpanContext(r.val.trace_id, r.val.span_id, r.val.sampled))

(* get_global_textmap().extract(carrier), with the W3C trace-context        *)
(* propagator configured: traceparent is <<version, trace-id, parent-id,    *)
(* flags>> when it matches the format.                                      *)
GlobalTextMapExtract(carrier) ==
    IF ~HasKey(carrier, "traceparent") THEN EmptyContext
    ELSE LET tp == Lookup(carrier, "traceparent").v IN
         IF Len(tp) # 4 \/ tp[1] = "ff" \/ tp[2] = "0" \/ tp[3] = "0"
         THEN EmptyContext
         ELSE ContextWithSpan(SpanContext(tp[2], tp[3], tp[4] = "01"))

(* obj[key] of Python: only a dict here supports lookup by a str key.       *)
GetItem(obj, key) ==
    IF obj.t = "dict"
    THEN IF HasKey(obj, key) THEN Returned(Lookup(obj, key)) ELSE Raised("KeyError")
    ELSE Raised("TypeError")

(* ----------------------- the functions of the module --------------------- *)
(* EventHeaders with an except clause that names KeyError alone.            *)
EventHeadersKeyErrorOnly(lambda_event) ==
    LET r == GetItem(lambda_event, "headers") IN
    IF r.kind = "raise" /\ r.val = "KeyError"
    THEN Returned(Dict({}))
    ELSE r

(* Lines 82-88: the try block; the carrier handed to the propagator.        *)
EventHeaders(lambda_event) ==
    LET r == GetItem(lambda_event, "headers") IN
    IF r.kind = "raise" /\ r.val \in {"TypeError", "KeyError"}
    THEN Returned(Dict({}))
    ELSE r

(* _default_event_context_extractor: the outcome, and the external calls    *)
(* made on the way.                                                         *)
DefaultEventContextExtractor(lambda_event) ==
    LET h == EventHeaders(lambda_event) IN
    IF h.kind = "raise"
    THEN [kind |-> "raise", val |-> h.val, calls |-> << >>]
    ELSE [kind  |-> "return",
          val   |-> GlobalTextMapExtract(h.val),
          calls |-> <<[op |-> "textmap.extract", arg |-> h.val]>>]

(* _determine_parent_context always falling through to the event.          *)
DetermineParentContextEventOnly(env, lambda_event) ==
    LET xray_env_var == EnvironGet(env, "_X_AMZN_TRACE_ID", None)
        carrier      == Dict({<<TRACE_HEADER_KEY, xray_env_var>>})
        xcalls       == IF Truthy(xray_env_var)
                        THEN <<[op |-> "xray.extract", arg |-> carrier]>>
                        ELSE << >>
        dflt         == DefaultEventContextExtractor(lambda_event)
    IN  [dflt EXCEPT !.calls = xcalls \o dflt.calls]

(* _determine_parent_context without the test of trace_flags.sampled.       *)
DetermineParentContextAnyXRay(env, lambda_event) ==
    LET xray_env_var == EnvironGet(env, "_X_AMZN_TRACE_ID", None)
        carrier      == Dict({<<TRACE_HEADER_KEY, xray_env_var>>})
        xcalls       == IF Truthy(xray_env_var)
                        THEN <<[op |-> "xray.extract", arg |-> carrier]>>
                        ELSE << >>
        parent       == IF Truthy(xray_env_var) THEN AwsXRayExtract(carrier) ELSE None
        dflt         == DefaultEventContextExtractor(lambda_event)
    IN  IF Truthy(parent)
        THEN [kind |-> "return", val |-> parent, calls |-> xcalls]
        ELSE [dflt EXCEPT !.calls = xcalls \o dflt.calls]

(* _determine_parent_context                                                *)
DetermineParentContext(env, lambda_event) ==
    LET xray_env_var == EnvironGet(env, "_X_AMZN_TRACE_ID", None)
        carrier      == Dict({<<TRACE_HEADER_KEY, xray_env_var>>})
        xcalls       == IF Truthy(xray_env_var)
                        THEN <<[op |-> "xray.extract", arg |-> carrier]>>
                        ELSE << >>
        parent       == IF Truthy(xray_env_var) THEN AwsXRayExtract(carrier) ELSE None
        dflt         == DefaultEventContextExtractor(lambda_event)
    IN  IF Truthy(parent) /\ CurrentSpanContext(parent).sampled
        THEN [kind |-> "return", val |-> parent, calls |-> xcalls]
        ELSE [dflt EXCEPT !.calls = xcalls \o dflt.calls]

(* obj.name of Python, for the invocation context argument.                 *)
GetAttr(obj, name) ==
    IF obj.t = "LambdaContext" /\ HasKey(obj, name)
    THEN Returned(Lookup(obj, name))
    ELSE Raised("AttributeError")

(* WrapperAttributes without the test of span.is_recording().               *)
WrapperAttributesUnconditional(recording, a, env) ==
    IF Len(a) < 2 THEN [kind |-> "raise", val |-> "IndexError", calls |-> << >>]
    ELSE LET lambda_context == a[2]
             rid == GetAttr(lambda_context, "aws_request_id")
             arn == GetAttr(lambda_context, "invoked_function_arn")
         IN  IF rid.kind = "raise"
             THEN [kind |-> "raise", val |-> rid.val, calls |-> << >>]
             ELSE IF arn.kind = "raise"
             THEN [kind |-> "raise", val |-> arn.val,
                   calls |-> << <<"faas.execution", rid.val>> >>]
             ELSE [kind |-> "return", val |-> "none",
                   calls |-> << <<"faas.execution", rid.val>>,
                                <<"faas.id", arn.val>>,
                                <<"faas.name",
                                  EnvironGet(env, "AWS_LAMBDA_FUNCTION_NAME", None)>>,
                                <<"faas.version",
                                  EnvironGet(env, "AWS_LAMBDA_FUNCTION_VERSION", None)>> >>]

(* Lines 143-160: the set_attribute calls made on the span, in order, and   *)
(* how the block ends.                                                      *)
WrapperAttributes(recording, a, env) ==
    IF ~recording THEN [kind |-> "return", val |-> "none", calls |-> << >>]
    ELSE IF Len(a) < 2 THEN [kind |-> "raise", val |-> "IndexError", calls |-> << >>]
    ELSE LET lambda_context == a[2]
             rid == GetAttr(lambda_context, "aws_request_id")
             arn == GetAttr(lambda_context, "invoked_function_arn")
         IN  IF rid.kind = "raise"
             THEN [kind |-> "raise", val |-> rid.val, calls |-> << >>]
             ELSE IF arn.kind = "raise"
             THEN [kind |-> "raise", val |-> arn.val,
                   calls |-> << <<"faas.execution", rid.val>> >>]
             ELSE [kind |-> "return", val |-> "none",
                   calls |-> << <<"faas.execution", rid.val>>,
                                <<"faas.id", arn.val>>,
                                <<"faas.name",
                                  EnvironGet(env, "AWS_LAMBDA_FUNCTION_NAME", None)>>,
                                <<"faas.version",
                                  EnvironGet(env, "AWS_LAMBDA_FUNCTION_VERSION", None)>> >>]

(* ------------------------------- the inputs ------------------------------ *)
RECURSIVE SeqsUpTo(_, _)
SeqsUpTo(S, n) ==
    IF n = 0 THEN {<< >>}
    ELSE LET shorter == SeqsUpTo(S, n - 1)
         IN  shorter \cup {Append(s, c) : s \in shorter, c \in S}

FlushTimeoutValues == {None} \cup {Str(s) : s \in SeqsUpTo(Chars, MaxLen)}

XRayValues ==
    { None,
      Str(<< >>),
      Str(<< <<"Root", "1-5759e988-bd86">>, <<"Parent", "53995c3f">>, <<"Sampled", "1">> >>),
      Str(<< <<"Root", "1-5759e988-bd86">>, <<"Parent", "53995c3f">>, <<"Sampled", "0">> >>),
      Str(<< <<"Root", "1-5759e988-bd86">>, <<"Parent", "53995c3f">> >>),
      Str(<< <<"Root", "garbage">>, <<"Parent", "53995c3f">>, <<"Sampled", "1">> >>),
      Str(<< <<"Sampled", "1">> >>),
      Str(<< <<"no-equals-sign">> >>) }

Carriers ==
    { Dict({}),
      Dict({<<"x-api-key", Str(<<"k">>)>>}),
      Dict({<<"traceparent", Str(<<"00", "4bf92f35", "00f067aa", "01">>)>>}),
      Dict({<<"traceparent", Str(<<"00", "4bf92f35", "00f067aa", "00">>)>>}),
      Dict({<<"traceparent", Str(<<"not-a-traceparent">>)>>}) }

Events ==
    { None,
      [t |-> "list"],
      [t |-> "int"],
      Str(<<"a">>),
      Dict({}),
      Dict({<<"body", Str(<<"b">>)>>}) }
    \cup { Dict({<<"headers", h>>}) : h \in Carriers }

LambdaContexts ==
    { None,
      [t |-> "LambdaContext", items |-> {}],
      [t |-> "LambdaContext", items |-> {<<"aws_request_id", Str(<<"req-1">>)>>}],
      [t |-> "LambdaContext", items |-> {<<"invoked_function_arn", Str(<<"arn:fn">>)>>}],
      [t |-> "LambdaContext", items |-> {<<"aws_request_id", Str(<<"req-1">>)>>,
                                         <<"invoked_function_arn", Str(<<"arn:fn">>)>>}] }

(* The positional arguments of one call: (event, context), or (event,)      *)
(* when the context argument is absent.                                     *)
ArgLists == {<<e>> : e \in Events} \cup {<<e, c>> : e \in Events, c \in LambdaContexts}

(* What the undecorated handler does with the arguments.                    *)
HandlerOutcomes == {Returned(Str(<<"200 OK">>)), Returned(None), Raised("RuntimeError")}

(* force_flush returns True, returns False (timed out), or raises.          *)
FlushOutcomes == {Returned(TRUE), Returned(FALSE), Raised("FlushError")}

EnvVars ==
    { FlushTimeoutVar, "_X_AMZN_TRACE_ID",
      "AWS_LAMBDA_FUNCTION_NAME", "AWS_LAMBDA_FUNCTION_VERSION" }

(* -------------------------------- the state ------------------------------ *)
VARIABLES
    environ,         \* os.environ: variable name -> Str, or None when unset
    flush_timeout,   \* the module-level name: unbound, bound to an int, or the
                     \* exception that ended the module's load
    pc,              \* position of the running otel_wrapper call
    args,            \* its positional arguments
    orig,            \* what orig_handler does when called with them
    parent_context,  \* local of otel_wrapper
    span,            \* the span of the with block
    pending,         \* exception propagating out of the with block, or "none"
    result,          \* local of otel_wrapper
    outcome,         \* how the otel_wrapper call ended
    trace            \* the external calls of this invocation, in order

vars == <<environ, flush_timeout, pc, args, orig, parent_context, span, pending,
          result, outcome, trace>>

Call(op, arg) == [op |-> op, arg |-> arg]

NoSpan == [open |-> FALSE, recording |-> FALSE, context |-> None, kind |-> "none",
           attributes |-> << >>]

Init ==
    /\ environ \in { [k \in EnvVars |->
                        CASE k = FlushTimeoutVar -> f
                          [] k = "_X_AMZN_TRACE_ID" -> None
                          [] k = "AWS_LAMBDA_FUNCTION_NAME" -> Str(<<"my-fn">>)
                          [] OTHER -> Str(<<"$LATEST">>)]
                     : f \in FlushTimeoutValues }
    /\ flush_timeout = [kind |-> "unbound"]
    /\ pc = "idle"
    /\ args = << >>
    /\ orig = Returned(None)
    /\ parent_context = None
    /\ span = NoSpan
    /\ pending = "none"
    /\ result = None
    /\ outcome = [kind |-> "none"]
    /\ trace = << >>

(* Line 127, at import.                                                     *)
Load ==
    /\ flush_timeout.kind = "unbound"
    /\ flush_timeout' = ComputeFlushTimeout(environ)
    /\ UNCHANGED <<environ, pc, args, orig, parent_context, span, pending, result,
                   outcome, trace>>

(* The runtime calls the decorated handler: line 131. It has set            *)
(* _X_AMZN_TRACE_ID for this invocation.                                    *)
Invoke ==
    /\ flush_timeout.kind = "return"
    /\ pc = "idle"
    /\ \E a \in ArgLists, h \in HandlerOutcomes, x \in XRayValues :
          /\ args' = a
          /\ orig' = h
          /\ environ' = [environ EXCEPT !["_X_AMZN_TRACE_ID"] = x]
    /\ pc' = "entered"
    /\ parent_context' = None
    /\ span' = NoSpan
    /\ pending' = "none"
    /\ result' = None
    /\ outcome' = [kind |-> "none"]
    /\ trace' = << >>
    /\ UNCHANGED flush_timeout

(* Lines 136-138.                                                           *)
ResolveParent ==
    /\ pc = "entered"
    /\ LET r == DetermineParentContext(environ, args[1]) IN
          /\ trace' = trace \o r.calls
          /\ IF r.kind = "raise"
             THEN /\ pc' = "raised"
                  /\ outcome' = Raised(r.val)
                  /\ UNCHANGED parent_context
             ELSE /\ pc' = "resolved"
                  /\ parent_context' = r.val
                  /\ UNCHANGED outcome
    /\ UNCHANGED <<environ, flush_timeout, args, orig, span, pending, result>>

(* Lines 140-142: the tracer opens the span and decides whether it records. *)
StartSpan ==
    /\ pc = "resolved"
    /\ \E rec \in BOOLEAN :
          span' = [open |-> TRUE, recording |-> rec, context |-> parent_context,
                   kind |-> "SERVER", attributes |-> << >>]
    /\ trace' = Append(trace, Call("start_as_current_span", parent_context))
    /\ pc' = "in_span"
    /\ UNCHANGED <<environ, flush_timeout, args, orig, parent_context, pending, result,
                   outcome>>

(* Lines 143-160.                                                           *)
SetAttributes ==
    /\ pc = "in_span"
    /\ LET r == WrapperAttributes(span.recording, args, environ) IN
          /\ span' = [span EXCEPT !.attributes = r.calls]
          /\ trace' = trace \o [i \in 1..Len(r.calls) |-> Call("set_attribute", r.calls[i])]
          /\ pending' = r.val
          /\ pc' = IF r.kind = "raise" THEN "exit_span" ELSE "call_handler"
    /\ UNCHANGED <<environ, flush_timeout, args, orig, parent_context, result, outcome>>

(* Line 162: the call.                                                      *)
CallHandler ==
    /\ pc = "call_handler"
    /\ trace' = Append(trace, Call("orig_handler", args))
    /\ pc' = "in_handler"
    /\ UNCHANGED <<environ, flush_timeout, args, orig, parent_context, span, pending,
                   result, outcome>>

(* Line 162: the handler returns or raises.                                 *)
HandlerDone ==
    /\ pc = "in_handler"
    /\ IF orig.kind = "return"
       THEN result' = orig.val /\ UNCHANGED pending
       ELSE pending' = orig.val /\ UNCHANGED result
    /\ pc' = "exit_span"
    /\ UNCHANGED <<environ, flush_timeout, args, orig, parent_context, span, outcome,
                   trace>>

(* The with block of line 140 exits: the span ends, a pending exception     *)
(* propagates out of otel_wrapper.                                          *)
ExitSpan ==
    /\ pc = "exit_span"
    /\ span' = [span EXCEPT !.open = FALSE]
    /\ trace' = Append(trace, Call("end_span", None))
    /\ IF pending # "none"
       THEN pc' = "raised" /\ outcome' = Raised(pending)
       ELSE pc' = "flush" /\ UNCHANGED outcome
    /\ UNCHANGED <<environ, flush_timeout, args, orig, parent_context, pending, result>>

(* Lines 165-166.                                                           *)
ForceFlush ==
    /\ pc = "flush"
    /\ trace' = Append(trace, Call("force_flush", flush_timeout.val))
    /\ \E f \in FlushOutcomes :
          IF f.kind = "raise"
          THEN pc' = "raised" /\ outcome' = f
          ELSE pc' = "return" /\ UNCHANGED outcome
    /\ UNCHANGED <<environ, flush_timeout, args, orig, parent_context, span, pending,
                   result>>

(* Line 168.                                                                *)
Return ==
    /\ pc = "return"
    /\ outcome' = Returned(result)
    /\ pc' = "returned"
    /\ UNCHANGED <<environ, flush_timeout, args, orig, parent_context, span, pending,
                   result, trace>>

(* The caller has the outcome of the call; the frame of otel_wrapper is     *)
(* gone and the execution environment waits for the next invocation.        *)
Complete ==
    /\ pc \in {"returned", "raised"}
    /\ pc' = "idle"
    /\ args' = << >>
    /\ orig' = Returned(None)
    /\ environ' = [environ EXCEPT !["_X_AMZN_TRACE_ID"] = None]
    /\ parent_context' = None
    /\ span' = NoSpan
    /\ pending' = "none"
    /\ result' = None
    /\ outcome' = [kind |-> "none"]
    /\ trace' = << >>
    /\ UNCHANGED flush_timeout

Next ==
    \/ Load
    \/ Invoke
    \/ ResolveParent
    \/ StartSpan
    \/ SetAttributes
    \/ CallHandler
    \/ HandlerDone
    \/ ExitSpan
    \/ ForceFlush
    \/ Return
    \/ Complete

Spec == Init /\ [][Next]_vars

(* ------------------------ vocabulary of the properties ------------------- *)
Terminal == pc \in {"returned", "raised"}

Indices(op) == {i \in 1..Len(trace) : trace[i].op = op}

Count(op) == Cardinality(Indices(op))

IsOp(c, op) == c.op = op

SetAttributeCalls ==
    LET IsSet(c) == c.op = "set_attribute"
        calls    == SelectSeq(trace, IsSet)
    IN  [i \in 1..Len(calls) |-> calls[i].arg]

HandlerCalled == Count("orig_handler") > 0

XRayCarrier == Dict({<<TRACE_HEADER_KEY, environ["_X_AMZN_TRACE_ID"]>>})

(* _X_AMZN_TRACE_ID holds a trace id whose extracted span context is sampled *)
XRaySampled ==
    /\ environ["_X_AMZN_TRACE_ID"] # None
    /\ CurrentSpanContext(AwsXRayExtract(XRayCarrier)).sampled

ParentResolved == pc \notin {"idle", "entered"}

EventHasHeaders == args # << >> /\ args[1].t = "dict" /\ HasKey(args[1], "headers")

ContextLacksField ==
    \/ Len(args) < 2
    \/ GetAttr(args[2], "aws_request_id").kind = "raise"
    \/ GetAttr(args[2], "invoked_function_arn").kind = "raise"

(* ---------------------------------- C1 ----------------------------------- *)
(* C1: every call otel_wrapper(event, context) ends as the undecorated      *)
(* handler would on the same arguments: it returns the value the handler    *)
(* returns, or raises the exception the handler raises, and nothing else.   *)
C1_WrapperIdenticalToHandler ==
    (Terminal /\ Len(args) = 2) => (outcome.kind = orig.kind /\ outcome.val = orig.val)

(* ---------------------------------- C2 ----------------------------------- *)
(* C2: in every invocation in which the handler was called, force_flush is  *)
(* called exactly once, after the handler call, with the configured         *)
(* timeout, whether the handler returned or raised.                         *)
C2_FlushOnceAfterHandler ==
    (Terminal /\ HandlerCalled) =>
        /\ Count("force_flush") = 1
        /\ \A i \in Indices("force_flush") :
              /\ trace[i].arg = flush_timeout.val
              /\ \A j \in Indices("orig_handler") : j < i

(* ---------------------------------- C3 ----------------------------------- *)
(* C3: with a sampled X-Ray trace id in the environment, the resolved       *)
(* parent is the context extracted from the X-Ray carrier, whatever the     *)
(* event is, and the event's headers are not handed to the propagator.      *)
C3_SampledXRayWins ==
    (ParentResolved /\ XRaySampled) =>
        /\ pc # "raised" \/ Count("start_as_current_span") = 1
        /\ parent_context = AwsXRayExtract(XRayCarrier)
        /\ Count("textmap.extract") = 0

C3_Witness ==
    /\ pc = "resolved"
    /\ XRaySampled
    /\ EventHasHeaders
    /\ GlobalTextMapExtract(Lookup(args[1], "headers")) # EmptyContext

(* ---------------------------------- C4 ----------------------------------- *)
(* C4: when the X-Ray variable is unset, empty, invalid or unsampled and    *)
(* the event has a "headers" field, the resolved parent is the context the  *)
(* configured text-map propagator extracts from those headers; an           *)
(* unsampled X-Ray context is not the parent.                               *)
C4_HeadersWhenXRayNotSampled ==
    (ParentResolved /\ ~XRaySampled /\ EventHasHeaders) =>
        /\ pc # "raised" \/ Count("start_as_current_span") = 1
        /\ parent_context = GlobalTextMapExtract(Lookup(args[1], "headers"))
        /\ (AwsXRayExtract(XRayCarrier) # EmptyContext
                => parent_context # AwsXRayExtract(XRayCarrier))

C4_Witness ==
    /\ pc = "resolved"
    /\ AwsXRayExtract(XRayCarrier) # EmptyContext
    /\ ~XRaySampled
    /\ EventHasHeaders
    /\ parent_context # EmptyContext

(* ---------------------------------- C5 ----------------------------------- *)
(* C5: for an event that is not a mapping or has no "headers" key, the      *)
(* default extractor raises nothing, hands an empty mapping to the          *)
(* propagator and returns what the propagator extracts from it.             *)
C5_NoHeadersIsEmptyCarrier ==
    (ParentResolved /\ ~XRaySampled /\ ~EventHasHeaders) =>
        /\ pc # "raised" \/ Count("start_as_current_span") = 1
        /\ Count("textmap.extract") = 1
        /\ \A i \in Indices("textmap.extract") : trace[i].arg = Dict({})
        /\ parent_context = GlobalTextMapExtract(Dict({}))

C5_Witness ==
    /\ pc = "resolved"
    /\ ~XRaySampled
    /\ args[1].t = "list"
    /\ trace = <<Call("textmap.extract", Dict({}))>>

C7_FlushTimeoutOrDefault ==
    flush_timeout.kind # "unbound" =>
        /\ flush_timeout.kind = "return"
        /\ flush_timeout.val =
              IF environ[FlushTimeoutVar] # None
                 /\ IntOfStr(environ[FlushTimeoutVar].v).kind = "return"
              THEN IntOfStr(environ[FlushTimeoutVar].v).val
              ELSE DefaultFlushTimeout

(* ---------------------------------- C8 ----------------------------------- *)
(* C8: when the handler was called and returned v, the decorated handler    *)
(* returns v, whatever force_flush did.                                     *)
C8_FlushFailureNotSurfaced ==
    (Terminal /\ HandlerCalled /\ orig.kind = "return") =>
        (outcome.kind = "return" /\ outcome.val = orig.val)

(* ---------------------------------- C9 ----------------------------------- *)
(* C9: under a recording span, a context argument that is absent or lacks   *)
(* aws_request_id or invoked_function_arn does not abort the invocation:    *)
(* the attributes whose source is there are set, the handler is called and  *)
(* its result kept.                                                         *)
C9_MissingContextFieldSkipped ==
    (Terminal /\ Count("start_as_current_span") = 1 /\ span.recording /\ ContextLacksField) =>
        /\ HandlerCalled
        /\ orig.kind = "return" => result = orig.val
        /\ \E i \in 1..Len(SetAttributeCalls) : SetAttributeCalls[i][1] = "faas.name"
        /\ \E i \in 1..Len(SetAttributeCalls) : SetAttributeCalls[i][1] = "faas.version"

(* ---------------------------------- C10 ---------------------------------- *)
(* C10: every invocation (event, context) opens exactly one SERVER span     *)
(* under the resolved parent, calls the handler exactly once while that     *)
(* span is open, closes the span on the return path and on the raise path,  *)
(* and flushes only after the span is closed.                               *)
C10_InvocationOrder ==
    /\ pc = "in_handler" => span.open
    /\ Count("force_flush") > 0 => ~span.open
    /\ (Terminal /\ Len(args) = 2) =>
          /\ span.kind = "SERVER"
          /\ ~span.open
          /\ Count("start_as_current_span") = 1
          /\ Count("orig_handler") = 1
          /\ Count("end_span") = 1
          /\ \A i \in Indices("start_as_current_span") : trace[i].arg = parent_context
          /\ \A i \in Indices("start_as_current_span"), j \in Indices("orig_handler"),
                k \in Indices("end_span") : i < j /\ j < k
          /\ \A k \in Indices("end_span"), f \in Indices("force_flush") : k < f

====
